---- MODULE Spec2Model ----
(***************************************************************************)
(* RobotState (src/src/robot_state.cpp): the kinematic-state resolver of   *)
(* render_kinect.  The constructor ingests a robot description, builds the *)
(* joint index and the camera chain; GetPartMeshPaths selects the links    *)
(* to render; InitKDLData / GetTransforms resolve a joint-state message    *)
(* into camera-relative link frames.                                       *)
(*                                                                         *)
(* Names are integers: std::map iterates its keys in order, and the order  *)
(* on integers stands for the lexicographic order on the names.  A rigid   *)
(* transform is an element of the (non-commutative) group of permutations  *)
(* of 1..3, so that the order of a composition is observable.              *)
(***************************************************************************)
EXTENDS Integers, Sequences, FiniteSets, TLC

\* ------------------------------------------------------------------------
\* Bounds of the model
\* ------------------------------------------------------------------------
\* a joint-state message carries at most MaxUpdateLen (name, position) pairs
MaxUpdateLen == 2
\* GetPartMeshPaths is called at most MaxSelectCalls times
MaxSelectCalls == 2

\* the joint positions the model tells apart
Vals == {0, 1}

\* ------------------------------------------------------------------------
\* Rigid transforms (KDL::Frame)
\* ------------------------------------------------------------------------
Identity == <<1, 2, 3>>

Frames == {<<1, 2, 3>>, <<1, 3, 2>>, <<2, 1, 3>>, <<2, 3, 1>>, <<3, 1, 2>>, <<3, 2, 1>>}

\* KDL::Frame operator*: a * b applies b first, then a
Mul(a, b) == [i \in 1..3 |-> a[b[i]]]

\* KDL::Frame::Inverse
Inverse(a) == CHOOSE b \in Frames : Mul(a, b) = Identity

RECURSIVE Pow(_, _)
\* the motion of a joint of axis a at position q
Pow(a, q) == IF q = 0 THEN Identity ELSE Mul(a, Pow(a, q - 1))

\* tf::transformKDLToEigen: the Eigen::Affine3d of a KDL::Frame, a matrix
transformKDLToEigen(k) == [i \in 1..3 |-> [j \in 1..3 |-> IF k[j] = i THEN 1 ELSE 0]]

\* ------------------------------------------------------------------------
\* The robot description (the string read from the parameter server)
\* ------------------------------------------------------------------------
NoLink == 0

\* the joint that connects link l to its parent is named 10 + l
JointName(l) == 10 + l

\* fixed offset of the joint of link l (urdf origin), and its axis
Origin(l) == IF l = 1 THEN <<2, 1, 3>> ELSE IF l = 2 THEN <<1, 3, 2>> ELSE <<2, 3, 1>>
Axis(l) == IF l = 1 THEN <<2, 3, 1>> ELSE IF l = 2 THEN <<2, 1, 3>> ELSE <<1, 3, 2>>

\* geometry of a link's visual: "none" (no visual), "box" (a primitive),
\* a mesh file "stl" / "dae" / "obj" (named by its extension), or "short",
\* a mesh whose file name has fewer than four characters
Geoms == {"none", "box", "stl", "dae", "obj", "short"}

\* a parsed description: links, root, parent links, joints, visuals, and the
\* order in which kdl_parser adds the segments to the tree
Chain123 == [links |-> {1, 2, 3}, root |-> 1,
             parent |-> <<NoLink, 1, 2>>,
             jtype |-> <<"none", "revolute", "revolute">>,
             limits |-> <<FALSE, TRUE, TRUE>>,
             geom |-> <<"stl", "dae", "none">>,
             order |-> <<2, 3>>]

Star2 == [links |-> {1, 2, 3}, root |-> 2,
          parent |-> <<2, NoLink, 2>>,
          jtype |-> <<"revolute", "none", "prismatic">>,
          limits |-> <<TRUE, FALSE, TRUE>>,
          geom |-> <<"stl", "none", "box">>,
          order |-> <<3, 1>>]

ChainDae == [Chain123 EXCEPT !.geom = <<"dae", "none", "stl">>]

Island == [links |-> {1, 2, 3}, root |-> 1,
           parent |-> <<NoLink, 1, NoLink>>,
           jtype |-> <<"none", "revolute", "none">>,
           limits |-> <<FALSE, TRUE, FALSE>>,
           geom |-> <<"stl", "none", "stl">>,
           order |-> <<2>>]

FixedObj == [links |-> {1, 2, 3}, root |-> 1,
             parent |-> <<NoLink, 1, 2>>,
             jtype |-> <<"none", "fixed", "revolute">>,
             limits |-> <<FALSE, FALSE, TRUE>>,
             geom |-> <<"obj", "stl", "none">>,
             order |-> <<2, 3>>]

Unlimited == [links |-> {1, 2, 3}, root |-> 1,
              parent |-> <<NoLink, 1, 1>>,
              jtype |-> <<"none", "continuous", "revolute">>,
              limits |-> <<FALSE, FALSE, TRUE>>,
              geom |-> <<"box", "stl", "none">>,
              order |-> <<2, 3>>]

ShortName == [links |-> {1, 2, 3}, root |-> 3,
              parent |-> <<3, 3, NoLink>>,
              jtype |-> <<"floating", "revolute", "none">>,
              limits |-> <<FALSE, TRUE, FALSE>>,
              geom |-> <<"dae", "none", "short">>,
              order |-> <<1, 2>>]

NoRobot == [links |-> {}, root |-> NoLink,
            parent |-> <<>>, jtype |-> <<>>, limits |-> <<>>, geom |-> <<>>,
            order |-> <<>>]

\* what the process is started with: the description string (parses or not)
\* and the private parameters camera_frame and kinematic_frame
Scenarios ==
    { [desc |-> Chain123, parses |-> TRUE, cam |-> 3, base |-> 1],
      [desc |-> Star2, parses |-> TRUE, cam |-> 1, base |-> 2],
      [desc |-> ChainDae, parses |-> TRUE, cam |-> 3, base |-> 2],
      [desc |-> Island, parses |-> TRUE, cam |-> 2, base |-> 1],
      [desc |-> FixedObj, parses |-> TRUE, cam |-> 7, base |-> 1],
      [desc |-> Unlimited, parses |-> TRUE, cam |-> 3, base |-> 1],
      [desc |-> ShortName, parses |-> TRUE, cam |-> 3, base |-> 3],
      [desc |-> Chain123, parses |-> TRUE, cam |-> 1, base |-> 1],
      [desc |-> NoRobot, parses |-> FALSE, cam |-> 3, base |-> 1] }


\* ------------------------------------------------------------------------
\* State
\* ------------------------------------------------------------------------
VARIABLES
    env,              \* the description string and the parameters (never change)
    pc,               \* "new", "ready" (the constructor returned), or how the process died
    log,              \* what the constructor reported (ROS_ERROR / ROS_FATAL)
    urdf_,            \* urdf::Model
    kin_tree_,        \* KDL::Tree: [built, root, segments, nrOfJoints]
    segment_map_,     \* names of the segments of the copy of the tree's segment map
    joint_map_,       \* std::vector<std::string>, index -> joint name
    base_2_cam_,      \* KDL::Chain
    chain_solver_,    \* "unset" (never assigned) or "built"
    tree_solver_,     \* "unset" (never assigned) or "built"
    part_mesh_map_,   \* std::vector<std::string>, the link keys
    part_mesh_paths,  \* the caller's vector handed to GetPartMeshPaths
    select_calls,     \* number of GetPartMeshPaths calls made
    jnt_array_,       \* KDL::JntArray
    cam_frame_,       \* KDL::Frame
    frame_map_,       \* std::map<std::string, KDL::Frame>, key -> frame
    current_tfs,      \* the caller's vector of transforms
    last              \* the latest call: its arguments and what it reported

vars == <<env, pc, log, urdf_, kin_tree_, segment_map_, joint_map_, base_2_cam_,
          chain_solver_, tree_solver_, part_mesh_map_, part_mesh_paths,
          select_calls, jnt_array_, cam_frame_, frame_map_, current_tfs, last>>

\* ------------------------------------------------------------------------
\* Helpers on containers
\* ------------------------------------------------------------------------
Min(S) == CHOOSE x \in S : \A y \in S : x <= y

RECURSIVE SortedSeq(_)
\* the keys of a std::map in iteration order
SortedSeq(S) == IF S = {} THEN <<>> ELSE <<Min(S)>> \o SortedSeq(S \ {Min(S)})

\* std::find over a vector: the position of the first match, Len + 1 for end()
Find(v, x) ==
    IF \E i \in 1..Len(v) : v[i] = x
    THEN Min({i \in 1..Len(v) : v[i] = x})
    ELSE Len(v) + 1

Range(v) == {v[i] : i \in 1..Len(v)}

\* ------------------------------------------------------------------------
\* The kinematic tree built from the description (kdl_parser, KDL::Tree)
\* ------------------------------------------------------------------------
RECURSIVE Ancestors(_, _)
\* l, its parent, ..., up to a link without parent
Ancestors(d, l) ==
    IF d.parent[l] = NoLink THEN <<l>> ELSE <<l>> \o Ancestors(d, d.parent[l])

\* the segments treeFromUrdfModel adds: the root and what descends from it
Segments(d) == {l \in d.links : d.root \in Range(Ancestors(d, l))}

\* the type of the KDL joint made of the urdf joint of segment s
KdlType(d, s) ==
    IF d.jtype[s] \in {"revolute", "continuous"} THEN "RotAxis"
    ELSE IF d.jtype[s] = "prismatic" THEN "TransAxis"
    ELSE "None"

Movable(d) == {s \in Segments(d) : KdlType(d, s) # "None"}

\* KDL::Tree::addSegment: q_nr is the number of joints added before, 0 for a
\* segment without joint
QNr(d, s) ==
    IF KdlType(d, s) = "None" THEN 0
    ELSE Cardinality({i \in 1..(Find(d.order, s) - 1) : KdlType(d, d.order[i]) # "None"})

NrOfJoints(d) == Cardinality(Movable(d))

\* KDL::Segment::pose(q): the fixed offset, then the motion of the joint
SegPose(d, s, q) ==
    IF KdlType(d, s) = "None" THEN Origin(s) ELSE Mul(Origin(s), Pow(Axis(s), q))

NoTree == [built |-> FALSE, root |-> NoLink, segments |-> {}, nrOfJoints |-> 0]

\* kdl_parser::treeFromUrdfModel on a parsed description
TreeOf(d) ==
    [built |-> TRUE, root |-> d.root, segments |-> Segments(d), nrOfJoints |-> NrOfJoints(d)]

\* ------------------------------------------------------------------------
\* RobotState::RobotState
\* ------------------------------------------------------------------------
JointMapWrongSlot(jm, d, s) == [jm EXCEPT ![1] = JointName(s)]

\* joint_map_[seg_it->second.q_nr] = joint->name
JointMapStore(jm, d, s) == [jm EXCEPT ![QNr(d, s) + 1] = JointName(s)]

RECURSIVE FillJointMap(_, _, _)
\* the loop over segment_map_ that fills joint_map_: the map filled so far
\* and how the loop ended ("ok", "nojoint": urdf_.getJoint found nothing,
\* "nolimits": joint->limits is null where it is read)
FillJointMap(d, segs, jm) ==
    IF segs = <<>> THEN [jm |-> jm, status |-> "ok"]
    ELSE LET s == Head(segs) IN
         IF KdlType(d, s) = "None" THEN FillJointMap(d, Tail(segs), jm)
         ELSE IF ~(s \in d.links /\ d.parent[s] # NoLink)
              THEN [jm |-> jm, status |-> "nojoint"]
         ELSE IF d.jtype[s] \in {"unknown", "fixed"}
              THEN FillJointMap(d, Tail(segs), jm)
         ELSE IF ~d.limits[s]
              THEN [jm |-> JointMapStore(jm, d, s), status |-> "nolimits"]
         ELSE FillJointMap(d, Tail(segs), JointMapStore(jm, d, s))

NoName == 0

\* joint_map_.resize(kin_tree_.getNrOfJoints())
EmptyJointMap(n) == [i \in 1..n |-> NoName]

RECURSIVE Reverse(_)
Reverse(v) == IF v = <<>> THEN <<>> ELSE Reverse(Tail(v)) \o <<Head(v)>>

\* the last name the two ancestor lists (each ending at the root) share
RECURSIVE CommonUp(_, _)
CommonUp(a, b) == IF a[1] \in Range(b) THEN a[1] ELSE CommonUp(Tail(a), b)

RECURSIVE UpTo(_, _)
\* the prefix of an ancestor list strictly below the segment c
UpTo(a, c) == IF a[1] = c THEN <<>> ELSE <<a[1]>> \o UpTo(Tail(a), c)

\* KDL::Tree::getChain(chain_root, chain_tip): the segments from chain_root up
\* to the common ancestor, inverted, then those down to chain_tip;
\* found is FALSE when either frame is not a segment of the tree
GetChain(d, tree, from, to) ==
    IF ~(from \in tree.segments /\ to \in tree.segments)
    THEN [found |-> FALSE, segs |-> <<>>]
    ELSE LET up == Ancestors(d, from)
             down == Ancestors(d, to)
             c == CommonUp(up, down)
             a == UpTo(up, c)
             b == Reverse(UpTo(down, c))
         IN [found |-> TRUE,
             segs |-> [i \in 1..Len(a) |-> [seg |-> a[i], inv |-> TRUE]]
                      \o [i \in 1..Len(b) |-> [seg |-> b[i], inv |-> FALSE]]]

NoCall == [op |-> "none", update |-> <<>>, errors |-> <<>>, writes |-> <<>>,
           steps |-> <<>>, chainErr |-> FALSE, treeErr |-> {}, tfs |-> <<>>]

Init ==
    /\ env \in Scenarios
    /\ pc = "new"
    /\ log = {}
    /\ urdf_ = NoRobot
    /\ kin_tree_ = NoTree
    /\ segment_map_ = {}
    /\ joint_map_ = <<>>
    /\ base_2_cam_ = <<>>
    /\ chain_solver_ = "unset"
    /\ tree_solver_ = "unset"
    /\ part_mesh_map_ = <<>>
    /\ part_mesh_paths = <<>>
    /\ select_calls = 0
    /\ jnt_array_ = <<>>
    /\ cam_frame_ = Identity
    /\ frame_map_ = <<>>
    /\ current_tfs = <<>>
    /\ last = NoCall

\* how the process ends when a null pointer is dereferenced: the read faults,
\* or the smart pointer's assertion aborts
Died == {"segfault", "abort"}

\* RobotState::RobotState
Construct ==
    /\ pc = "new"
    /\ LET d == IF env.parses THEN env.desc ELSE NoRobot
           log1 == IF env.parses THEN {} ELSE {"Failed to parse urdf"}
           tree == IF env.parses THEN TreeOf(d) ELSE NoTree
           fill == FillJointMap(d, SortedSeq(tree.segments), EmptyJointMap(tree.nrOfJoints))
           chain == GetChain(d, tree, env.cam, env.base)
       IN /\ urdf_' = d
          /\ IF ~env.parses
             THEN \* treeFromUrdfModel of a model without root: it returns false
                  \* and the constructor returns, or it reads the missing root
                  /\ pc' \in {"ready"} \cup Died
                  /\ log' = log1 \cup {"Failed to construct kdl tree"}
                  /\ UNCHANGED <<kin_tree_, segment_map_, joint_map_, base_2_cam_,
                                 chain_solver_, tree_solver_>>
             ELSE /\ kin_tree_' = tree
                  /\ segment_map_' = tree.segments
                  /\ joint_map_' = fill.jm
                  /\ IF fill.status = "ok"
                     THEN /\ pc' = "ready"
                          /\ base_2_cam_' = chain.segs
                          /\ log' = IF chain.found THEN log1
                                    ELSE log1 \cup {"Could not create chain"}
                          /\ chain_solver_' = "built"
                          /\ tree_solver_' = "built"
                     ELSE \* joint->name of a null joint, or joint->limits->lower
                          \* of a joint without limits, is read
                          /\ pc' \in Died
                          /\ log' = log1
                          /\ UNCHANGED <<base_2_cam_, chain_solver_, tree_solver_>>
    /\ UNCHANGED <<env, part_mesh_map_, part_mesh_paths, select_calls, jnt_array_,
                   cam_frame_, frame_map_, current_tfs, last>>

\* ------------------------------------------------------------------------
\* RobotState::GetPartMeshPaths
\* ------------------------------------------------------------------------
RECURSIVE WalkToRoot(_, _)
\* the while loop: tmp_link is replaced by its parent until it is the global
\* root; NoLink when the parent pointer that is followed is null
WalkToRoot(d, l) ==
    IF l = d.root THEN l
    ELSE IF d.parent[l] = NoLink THEN NoLink
    ELSE WalkToRoot(d, d.parent[l])

\* visual, geometry and type == MESH of tmp_link
IsMesh(d, l) == d.geom[l] \in {"stl", "dae", "obj", "short"}

\* the test on the last four characters of the file name
HasMeshExtension(d, l) == d.geom[l] \in {"stl", "dae"}

\* mesh->filename of link l
MeshFile(d, l) == <<"mesh", l, d.geom[l]>>

RECURSIVE SelectLinks(_, _, _, _)
\* the loop over the links, in the order of urdf_.getLinks: the two vectors
\* after it, and how it ended ("ok", "null": a null link was dereferenced,
\* "range": substr was given a position past the end of the file name)
SelectLinks(d, links, paths, keys) ==
    IF links = <<>> THEN [paths |-> paths, keys |-> keys, status |-> "ok"]
    ELSE LET tmp_link == WalkToRoot(d, Head(links)) IN
         IF tmp_link = NoLink
         THEN [paths |-> paths, keys |-> keys, status |-> "null"]
         ELSE IF ~IsMesh(d, tmp_link)
              THEN SelectLinks(d, Tail(links), paths, keys)
         ELSE IF d.geom[tmp_link] = "short"
              THEN [paths |-> paths, keys |-> keys, status |-> "range"]
         ELSE IF HasMeshExtension(d, tmp_link)
              THEN SelectLinks(d, Tail(links),
                               Append(paths, MeshFile(d, tmp_link)),
                               Append(keys, tmp_link))
         ELSE SelectLinks(d, Tail(links), paths, keys)

\* RobotState::GetPartMeshPaths; the caller hands in an empty vector, or the
\* vector of its previous call
GetPartMeshPaths ==
    /\ pc = "ready"
    /\ last.op = "none"
    /\ select_calls < MaxSelectCalls
    /\ \E arg \in {<<>>, part_mesh_paths} :
        IF urdf_.root = NoLink
        THEN \* urdf_.getRoot() is null and its name is read
             /\ pc' \in Died
             /\ UNCHANGED <<part_mesh_map_, part_mesh_paths>>
        ELSE LET r == SelectLinks(urdf_, SortedSeq(urdf_.links), arg, part_mesh_map_)
             IN /\ part_mesh_paths' = r.paths
                /\ part_mesh_map_' = r.keys
                /\ pc' \in IF r.status = "ok" THEN {"ready"}
                           ELSE IF r.status = "range" THEN {"threw"}
                           ELSE Died
    /\ select_calls' = select_calls + 1
    /\ last' = [NoCall EXCEPT !.op = "GetPartMeshPaths"]
    /\ UNCHANGED <<env, log, urdf_, kin_tree_, segment_map_, joint_map_, base_2_cam_,
                   chain_solver_, tree_solver_, jnt_array_, cam_frame_, frame_map_,
                   current_tfs>>

\* ------------------------------------------------------------------------
\* Resolution: GetInitialJoints, SetCameraTransform, ComputeLinkTransforms
\* ------------------------------------------------------------------------
\* RobotState::GetJointIndex
GetJointIndex(jm, name) ==
    IF Find(jm, name) <= Len(jm) THEN Find(jm, name) - 1 ELSE -1

\* RobotState::num_joints
num_joints(tree) == tree.nrOfJoints

RECURSIVE GetInitialJointsStop(_, _, _, _)
GetInitialJointsStop(jm, state, i, acc) ==
    IF i > Len(state) THEN acc
    ELSE LET tmp_index == GetJointIndex(jm, state[i][1]) IN
         IF tmp_index >= 0
         THEN GetInitialJointsStop(jm, state, i + 1,
                  [acc EXCEPT !.angles[tmp_index + 1] = state[i][2],
                              !.writes = Append(@, <<tmp_index, state[i][2]>>)])
         ELSE [acc EXCEPT !.errors = Append(@, <<i - 1, state[i][1]>>)]

RECURSIVE GetInitialJoints(_, _, _, _)
\* the loop of GetInitialJoints from position i of the message on; acc holds
\* jnt_angles (as resize left it, then as written), the errors reported and
\* the writes made
GetInitialJoints(jm, state, i, acc) ==
    IF i > Len(state) THEN acc
    ELSE LET tmp_index == GetJointIndex(jm, state[i][1]) IN
         IF tmp_index >= 0
         THEN GetInitialJoints(jm, state, i + 1,
                  [acc EXCEPT !.angles[tmp_index + 1] = state[i][2],
                              !.writes = Append(@, <<tmp_index, state[i][2]>>)])
         ELSE GetInitialJoints(jm, state, i + 1,
                  [acc EXCEPT !.errors = Append(@, <<i - 1, state[i][1]>>)])

\* jnt_array_(i), an arbitrary value when i is out of range
ReadJnt(q, i, oob) == IF i \in 1..Len(q) THEN q[i] ELSE oob

RECURSIVE ChainFk(_, _, _, _, _)
\* SetCameraTransform and KDL::ChainFkSolverPos_recursive::JntToCart: the
\* poses of the chain's segments, composed from its first segment on, each
\* joint at the position jnt_array_ holds at its index in joint_map_
ChainFk(d, jm, chain, q, oob) ==
    IF chain = <<>> THEN Identity
    ELSE LET s == Head(chain).seg
             v == IF KdlType(d, s) = "None" THEN 0
                  ELSE ReadJnt(q, Find(jm, JointName(s)), oob)
             pose == SegPose(d, s, v)
         IN Mul(IF Head(chain).inv THEN Inverse(pose) ELSE pose,
                ChainFk(d, jm, Tail(chain), q, oob))

RECURSIVE TreeFk(_, _, _)
\* KDL::TreeFkSolverPos_recursive::JntToCart: the pose of segment s in the
\* frame of the root of the tree, each joint at the position q holds at its q_nr
TreeFk(d, q, s) ==
    IF s = d.root THEN Identity
    ELSE Mul(TreeFk(d, q, d.parent[s]), SegPose(d, s, ReadJnt(q, QNr(d, s) + 1, 0)))

\* the segments ComputeLinkTransforms and GetTransforms visit: those of
\* segment_map_ whose name std::find finds in part_mesh_map_
Tracked(segs, keys) == {s \in segs : s \in Range(keys)}

\* frame_map_[name] = cam_frame_ * frame
LinkFrame(cam, frame) == Mul(cam, frame)

RECURSIVE ComputeLinkTransforms(_, _, _, _, _, _)
\* the loop of ComputeLinkTransforms over the tracked segments in map order;
\* failing are the segments for which the tree solver returns an error, and
\* then frame is still the default-constructed KDL::Frame
ComputeLinkTransforms(d, segs, q, cam, failing, fm) ==
    IF segs = <<>> THEN fm
    ELSE LET s == Head(segs)
             frame == IF s \in failing THEN Identity ELSE TreeFk(d, q, s)
         IN ComputeLinkTransforms(d, Tail(segs), q, cam, failing,
                                  (s :> LinkFrame(cam, frame)) @@ fm)

\* the joint names of the messages; in every description at least one of them
\* names no joint of the index
UpdateNames == {11, 12, 13}

\* sensor_msgs::JointState: name[i] and position[i], as (name, position) pairs
Updates == UNION {[1..n -> UpdateNames \X Vals] : n \in 0..MaxUpdateLen}

\* the vector GetTransforms fills: its own copy of the caller's, since the
\* parameter is passed by value
LocalTfs(arg, segs, fm) == arg \o [i \in 1..Len(segs) |-> transformKDLToEigen(fm[segs[i]])]

\* the indices of jnt_angles the loop of GetInitialJoints assigns
Written(jm, state) ==
    {GetJointIndex(jm, state[i][1]) : i \in 1..Len(state)} \ {-1}

\* jnt_angles.resize(num_joints()) on a fresh vector: its coefficients are not
\* initialised, and the loop assigns those of Written only; rest gives the
\* values the others happen to hold
Resized(n, written, rest) ==
    [i \in 1..n |-> IF (i - 1) \in written THEN 0 ELSE rest[i - 1]]

\* RobotState::InitKDLData on a resolver whose constructor ran to its end;
\* chainErr and failing are what the two solvers return (an error or not)
InitKDLData(state, arg) ==
    \E rest \in [(0..(num_joints(kin_tree_) - 1)) \ Written(joint_map_, state) -> Vals],
       chainErr \in BOOLEAN,
       failing \in SUBSET Tracked(segment_map_, part_mesh_map_) :
        LET g == GetInitialJoints(joint_map_, state, 1,
                     [angles |-> Resized(num_joints(kin_tree_),
                                         Written(joint_map_, state), rest),
                      errors |-> <<>>, writes |-> <<>>])
            cam == IF chainErr THEN Identity
                   ELSE ChainFk(urdf_, joint_map_, base_2_cam_, g.angles, 0)
            tracked == SortedSeq(Tracked(segment_map_, part_mesh_map_))
            fm == ComputeLinkTransforms(urdf_, tracked, g.angles, cam, failing, frame_map_)
        IN /\ jnt_array_' = g.angles
           /\ cam_frame_' = cam
           /\ frame_map_' = fm
           /\ pc' = pc
           /\ last' = [op |-> "GetTransforms", update |-> state, errors |-> g.errors,
                       writes |-> g.writes,
                       steps |-> <<"GetInitialJoints", "SetCameraTransform",
                                   "ComputeLinkTransforms">>,
                       chainErr |-> chainErr, treeErr |-> failing,
                       tfs |-> LocalTfs(arg, tracked, fm)]

\* RobotState::InitKDLData on a resolver whose constructor returned before it
\* assigned chain_solver_: the call through the pointer dies, or returns
\* with anything in cam_frame_
InitKDLDataUnbuilt(state, arg) ==
    LET g == GetInitialJoints(joint_map_, state, 1,
                 [angles |-> <<>>, errors |-> <<>>, writes |-> <<>>])
    IN /\ jnt_array_' = g.angles
       /\ \/ /\ pc' = "segfault"
             /\ UNCHANGED cam_frame_
             /\ last' = [op |-> "GetTransforms", update |-> state, errors |-> g.errors,
                         writes |-> g.writes,
                         steps |-> <<"GetInitialJoints", "SetCameraTransform">>,
                         chainErr |-> FALSE, treeErr |-> {}, tfs |-> <<>>]
          \/ /\ pc' = pc
             /\ cam_frame_' \in Frames
             /\ \E chainErr \in BOOLEAN :
                 last' = [op |-> "GetTransforms", update |-> state, errors |-> g.errors,
                          writes |-> g.writes,
                          steps |-> <<"GetInitialJoints", "SetCameraTransform",
                                      "ComputeLinkTransforms">>,
                          chainErr |-> chainErr, treeErr |-> {}, tfs |-> arg]
       /\ UNCHANGED frame_map_

\* RobotState::GetTransforms: InitKDLData, then the loop that fills
\* current_tfs, which is a copy of the caller's vector
GetTransforms ==
    /\ pc = "ready"
    /\ last.op = "none"
    /\ \E state \in Updates :
        IF chain_solver_ = "built"
        THEN InitKDLData(state, current_tfs)
        ELSE InitKDLDataUnbuilt(state, current_tfs)
    /\ UNCHANGED <<env, log, urdf_, kin_tree_, segment_map_, joint_map_, base_2_cam_,
                   chain_solver_, tree_solver_, part_mesh_map_, part_mesh_paths,
                   select_calls, current_tfs>>

\* the call has returned and its caller has read what it reported
Return ==
    /\ pc = "ready"
    /\ last.op # "none"
    /\ last' = NoCall
    /\ UNCHANGED <<env, pc, log, urdf_, kin_tree_, segment_map_, joint_map_, base_2_cam_,
                   chain_solver_, tree_solver_, part_mesh_map_, part_mesh_paths,
                   select_calls, jnt_array_, cam_frame_, frame_map_, current_tfs>>

Next == Construct \/ GetPartMeshPaths \/ GetTransforms \/ Return

Spec == Init /\ [][Next]_vars


\* ------------------------------------------------------------------------
\* Properties
\* ------------------------------------------------------------------------
\* the call made in the step just taken is a resolution call
ResolvedNow == last.op = "GetTransforms"

\* the constructor ran to its end: the tree was built, the loop over the
\* segments completed and both solvers were created
Constructed == pc # "new" /\ kin_tree_.built /\ chain_solver_ = "built"

\* the entries of a message, each with its position (counted from 0)
Entries(state) == [i \in 1..Len(state) |-> <<i - 1, state[i][1], state[i][2]>>]

\* the index of a name the joint index holds
IndexOf(name) == CHOOSE i \in 0..(Len(joint_map_) - 1) : joint_map_[i + 1] = name

\* C1: a resolution call changes only the dense joint-state entries whose
\* joint names appear in its update; every other entry keeps the value it
\* had before the call.
PartialUpdateMerge ==
    [][(last.op = "none" /\ last'.op = "GetTransforms" /\ pc' = "ready"
        /\ Len(jnt_array_) = Len(jnt_array_'))
       => \A i \in 1..Len(jnt_array_') :
              (\A k \in 1..Len(last'.update) : last'.update[k][1] # joint_map_[i])
              => jnt_array_'[i] = jnt_array_[i]]_vars

\* C2: in every resolution call, each entry of the update whose name is not
\* in the joint index produces exactly one reported error naming its position
\* and name and writes nothing; each entry whose name is in the index is
\* written at that joint's index (so the index holds the value of the last
\* entry naming it); no name ends the call before the chain solve, and on a
\* resolver whose constructor created the solvers the chain solve and the
\* per-link solves are both run.
UnknownJointRobustness ==
    ResolvedNow =>
        LET e == Entries(last.update)
            Unknown(x) == x[2] \notin Range(joint_map_)
            Known(x) == x[2] \in Range(joint_map_)
            bad == SelectSeq(e, Unknown)
            good == SelectSeq(e, Known)
        IN /\ last.errors = [i \in 1..Len(bad) |-> <<bad[i][1], bad[i][2]>>]
           /\ last.writes = [i \in 1..Len(good) |-> <<IndexOf(good[i][2]), good[i][3]>>]
           /\ \A i \in 1..Len(good) :
                  (\A j \in (i + 1)..Len(good) : good[j][2] # good[i][2])
                  => jnt_array_[IndexOf(good[i][2]) + 1] = good[i][3]
           /\ Len(last.steps) >= 2 /\ last.steps[2] = "SetCameraTransform"
           /\ (chain_solver_ = "built"
               => last.steps = <<"GetInitialJoints", "SetCameraTransform",
                                 "ComputeLinkTransforms">>)

\* C2 witness: a call on a constructed resolver whose update had an unknown
\* name first and a known one after it, which was written
UnknownThenKnownResolved ==
    /\ ResolvedNow /\ Constructed /\ pc = "ready"
    /\ Len(last.update) = 2
    /\ last.update[1][1] \notin Range(joint_map_)
    /\ last.update[2][1] \in Range(joint_map_)
    /\ Len(last.errors) = 1 /\ Len(last.writes) = 1
    /\ jnt_array_[IndexOf(last.update[2][1]) + 1] = 1

\* C3: if a solver reports an error for a tracked link, that link's FrameMap
\* entry is not written in this call (it keeps its value or stays absent).
SolveFailureSkipsLink ==
    [][(last.op = "none" /\ last'.op = "GetTransforms" /\ Constructed)
       => \A s \in last'.treeErr :
              /\ (s \in DOMAIN frame_map_') = (s \in DOMAIN frame_map_)
              /\ s \in DOMAIN frame_map_ => frame_map_'[s] = frame_map_[s]]_vars

\* C4: once GetPartMeshPaths has produced the mesh-path list, a resolution
\* call leaves in its caller's vector as many transforms as there are mesh
\* paths, the i-th being the pose of the i-th key of the LinkSet.
OutputAlignment ==
    (ResolvedNow /\ Constructed /\ pc = "ready" /\ select_calls > 0
     /\ Len(part_mesh_map_) = Len(part_mesh_paths))
    => /\ Len(current_tfs) = Len(part_mesh_paths)
       /\ \A i \in 1..Len(current_tfs) :
              /\ part_mesh_map_[i] \in DOMAIN frame_map_
              /\ current_tfs[i] = transformKDLToEigen(frame_map_[part_mesh_map_[i]])

\* C5: after every successful resolution call, for every tracked link key k,
\* FrameMap[k] = inverse(root_to_sensor) * root_to_link(k), both taken from
\* the topology root at the current dense joint state.
CompositionOrder ==
    (ResolvedNow /\ Constructed /\ pc = "ready" /\ env.cam \in segment_map_
     /\ ~last.chainErr /\ last.treeErr = {})
    => \A k \in Tracked(segment_map_, part_mesh_map_) :
           /\ k \in DOMAIN frame_map_
           /\ frame_map_[k] = Mul(Inverse(TreeFk(urdf_, jnt_array_, env.cam)),
                                  TreeFk(urdf_, jnt_array_, k))

\* C6: if the description fails to parse, the tree cannot be built, or the
\* chain to the sensor frame cannot be created, no resolution call ever
\* executes on that resolver.
FatalErrorsHalt == ResolvedNow => (log = {} /\ chain_solver_ = "built")

\* C7: after successful construction the joint index has as many entries as
\* the tree has non-fixed joints, every movable joint name is at exactly one
\* index, looking an index's name up gives the index back, and no later call
\* changes the index.
IndexBijection ==
    /\ [](Constructed =>
            /\ Len(joint_map_) = Cardinality(Movable(urdf_))
            /\ \A s \in Movable(urdf_) :
                   Cardinality({i \in 1..Len(joint_map_) : joint_map_[i] = JointName(s)}) = 1
            /\ \A i \in 1..Len(joint_map_) :
                   GetJointIndex(joint_map_, joint_map_[i]) = i - 1)
    /\ [][pc # "new" => joint_map_' = joint_map_]_vars

\* C7 witness: an index whose order is not the order of the names, after a
\* selection and a resolution call
IndexedOutOfNameOrder ==
    /\ Constructed /\ joint_map_ = <<13, 11>>
    /\ select_calls > 0 /\ ResolvedNow

RECURSIVE NearestMesh(_, _)
\* the first segment on the way up from l that carries a mesh with a
\* recognized extension; NoLink when the way ends (at the root, or at a
\* segment without parent) before one is met
NearestMesh(d, l) ==
    IF IsMesh(d, l) /\ HasMeshExtension(d, l) THEN l
    ELSE IF l = d.root \/ d.parent[l] = NoLink THEN NoLink
    ELSE NearestMesh(d, d.parent[l])

\* the keys of the links that contribute, in the order of the link list
NearestMeshKeys(d) ==
    LET all == [i \in 1..Cardinality(d.links) |-> NearestMesh(d, SortedSeq(d.links)[i])]
        Met(k) == k # NoLink
    IN SelectSeq(all, Met)

\* C8: each link contributes an entry exactly when its upward walk stops at
\* a segment carrying a mesh with a recognized extension, and the key recorded
\* is the name of that nearest mesh-bearing ancestor, with its mesh file.
LinkSelectionWalk ==
    (last.op = "GetPartMeshPaths" /\ pc = "ready" /\ select_calls = 1)
    => /\ part_mesh_map_ = NearestMeshKeys(urdf_)
       /\ part_mesh_paths = [i \in 1..Len(part_mesh_map_) |-> MeshFile(urdf_, part_mesh_map_[i])]

\* C9: once produced, the LinkSet is never changed by a later GetPartMeshPaths
\* or resolution call, and stays index-aligned with the mesh-path list
\* returned to the caller.
LinkSetStable ==
    [][select_calls > 0
       => /\ part_mesh_map_' = part_mesh_map_
          /\ Len(part_mesh_map_') = Len(part_mesh_paths')]_vars

\* the links whose parent chain ends at a parentless segment other than the root
Disconnected(d) == {l \in d.links : d.root \notin Range(Ancestors(d, l))}

\* C10: for a link whose parent chain ends at a parentless segment other than
\* the root, the walk terminates, the link adds no entry, no error is raised
\* and the remaining links are still processed.
DisconnectedLinksSkipped ==
    (last.op = "GetPartMeshPaths" /\ Disconnected(urdf_) # {})
    => /\ pc = "ready"
       /\ \A i \in 1..Len(part_mesh_map_) : part_mesh_map_[i] \notin Disconnected(urdf_)

====
